---------------------------- MODULE Spec2Model ----------------------------
(***************************************************************************)
(* A state-machine model of deepbelief's SemiRBM (semirbm.py): the         *)
(* instance fields, the samplers forward and backward, train, and the      *)
(* AIS-based estimator _ulogprob_hid.                                      *)
(*                                                                         *)
(* Reals are fixed-point integers counted in units of 1/One; a matrix is   *)
(* the sequence of its rows.  numpy's global random generator is the       *)
(* state variable rng; every draw advances it.                             *)
(***************************************************************************)
EXTENDS Integers, Sequences, FiniteSets, TLC

\* Python's None where a matrix may stand
None == <<>>
NoErr == "ok"

\* the fixed-point unit: 1.0
One == 10^4

---------------------------------------------------------------------------
\* Bounds of the model.

\* calls and caller writes in one behaviour of the samplers or the estimator
MaxCalls == 2
\* train calls in one behaviour of training
MaxTrains == 3
\* column counts of the matrices callers pass: 1..MaxCols
MaxCols == 2
\* cd_steps ranges over 0..MaxCdSteps
MaxCdSteps == 1
\* seeds of the generator at construction: 0..NumSeeds-1
NumSeeds == 2
\* column counts of the Y passed to _ulogprob_hid: 1..MaxHidCols
MaxHidCols == 5

---------------------------------------------------------------------------
\* Constructor arguments and hyperparameters.

num_visibles == 2
num_hiddens == 1

\* the defaults 0.01, 0.5, 0., 0.2 in units of 1/One
learning_rate_lateral == 100
momentum_lateral == 5000
weight_decay_lateral == 0
damping == 2000
\* a count; the default is 20, and the caller of the model sets this one
num_lateral_updates == 2

\* hyperparameters of AbstractBM
learning_rate == 100
momentum == 5000
weight_decay == 0

\* the element budget 1E7 of _ulogprob_hid
Budget == 10000000

---------------------------------------------------------------------------
\* Matrices.

Rows(M) == Len(M)
Cols(M) == Len(M[1])
Max(a, b) == IF a >= b THEN a ELSE b
Min(a, b) == IF a <= b THEN a ELSE b

\* the r x c matrix of the entries F(i, j), held as the tuple of its rows
\* (concatenation makes TLC evaluate the entries once, here)
Mat(r, c, F(_, _)) == [i \in 1..r |-> [j \in 1..c |-> F(i, j)] \o <<>>] \o <<>>

Zeros(r, c) == Mat(r, c, LAMBDA i, j : 0)
Tr(M) == Mat(Cols(M), Rows(M), LAMBDA i, j : M[j][i])
RowOf(M, i) == <<M[i]>>

\* a * b of two fixed-point numbers
FMul(a, b) == (a * b) \div One

\* numpy broadcasting of a binary elementwise operation: along each axis
\* the lengths are equal or one of them is 1
Compat(A, B) ==
    /\ (Rows(A) = Rows(B) \/ Rows(A) = 1 \/ Rows(B) = 1)
    /\ (Cols(A) = Cols(B) \/ Cols(A) = 1 \/ Cols(B) = 1)
At(A, i, j) == A[IF Rows(A) = 1 THEN 1 ELSE i][IF Cols(A) = 1 THEN 1 ELSE j]
Add(A, B) == Mat(Max(Rows(A), Rows(B)), Max(Cols(A), Cols(B)),
                 LAMBDA i, j : At(A, i, j) + At(B, i, j))
Sub(A, B) == Mat(Max(Rows(A), Rows(B)), Max(Cols(A), Cols(B)),
                 LAMBDA i, j : At(A, i, j) - At(B, i, j))

\* scalar * M and M / n
Times(s, M) == Mat(Rows(M), Cols(M), LAMBDA i, j : FMul(s, M[i][j]))
Over(M, n) == Mat(Rows(M), Cols(M), LAMBDA i, j : M[i][j] \div n)

\* the matrix product A * B of np.matrix; defined when Cols(A) = Rows(B)
MatMulOk(A, B) == Cols(A) = Rows(B)
RECURSIVE DotSum(_, _, _, _, _)
DotSum(A, i, B, j, k) ==
    IF k = 0 THEN 0 ELSE DotSum(A, i, B, j, k - 1) + A[i][k] * B[k][j]
MatMul(A, B) == Mat(Rows(A), Cols(B),
                    LAMBDA i, j : DotSum(A, i, B, j, Cols(A)) \div One)

\* M.mean(1): the mean of each row, a column vector
RECURSIVE RowSum(_, _)
RowSum(r, k) == IF k = 0 THEN 0 ELSE RowSum(r, k - 1) + r[k]
Mean1(M) == Mat(Rows(M), 1, LAMBDA i, j : RowSum(M[i], Cols(M)) \div Cols(M))

\* np.diag(np.diag(M)): the diagonal of M as a diagonal matrix
DiagOf(M) == Mat(Rows(M), Cols(M), LAMBDA i, j : IF i = j THEN M[i][j] ELSE 0)
\* np.triu(M)
Triu(M) == Mat(Rows(M), Cols(M), LAMBDA i, j : IF i <= j THEN M[i][j] ELSE 0)

\* 1. / (1. + exp(-z)), z and the result in units of 1/One: linear between
\* the values of the logistic function at the integers, odd about (0, 1/2)
SigPos(z) ==
    LET k == z \div One
        f == z % One
        v == <<5000, 7311, 8808, 9526, 9820, 9933, 9975, 9991>>
    IN IF k >= 7 THEN 9991 ELSE v[k + 1] + ((v[k + 2] - v[k + 1]) * f) \div One
Sigmoid1(z) == IF z >= 0 THEN SigPos(z) ELSE One - SigPos(-z)
Sigmoid(M) == Mat(Rows(M), Cols(M), LAMBDA i, j : Sigmoid1(M[i][j]))

---------------------------------------------------------------------------
\* np.random: a linear congruential generator stands for numpy's.

RngMod == 2^4
Lcg(x) == (5 * x + 3) % RngMod
RECURSIVE RngAt(_, _)
RngAt(x, k) == IF k = 0 THEN x ELSE Lcg(RngAt(x, k - 1))
\* the k-th next value of np.random.rand, in [0, One)
Uniform(x, k) == (RngAt(x, k) * One) \div RngMod
\* np.random.rand(r, c): the matrix, and the generator after it
Rand(x, r, c) ==
    [mat |-> Mat(r, c, LAMBDA i, j : Uniform(x, (i - 1) * c + j)),
     rng |-> RngAt(x, r * c)]
\* np.random.randn(r, c), a coarse standard normal: 4 * (u - 1/2)
Randn(x, r, c) ==
    [mat |-> Mat(r, c, LAMBDA i, j : 4 * (Uniform(x, (i - 1) * c + j) - One \div 2)),
     rng |-> RngAt(x, r * c)]
\* (U < P).astype(float), broadcast
Less(U, P) == Mat(Max(Rows(U), Rows(P)), Max(Cols(U), Cols(P)),
                  LAMBDA i, j : IF At(U, i, j) < At(P, i, j) THEN One ELSE 0)

\* np.random.permutation(n): a shuffle of 1..n, one draw for each of the
\* places n, n-1, .., 2
Swap(s, i, j) == [s EXCEPT ![i] = s[j], ![j] = s[i]]
RECURSIVE Shuffle(_, _, _)
Shuffle(s, x, i) ==
    IF i <= 1 THEN [perm |-> s, rng |-> x]
    ELSE LET y == Lcg(x)
             j == 1 + (y * i) \div RngMod
         IN Shuffle(Swap(s, i, j), y, i - 1)
Permutation(x, n) == Shuffle([i \in 1..n |-> i] \o <<>>, x, n)

---------------------------------------------------------------------------
\* The state.

VARIABLES
    self,       \* the fields of the SemiRBM instance
    rng,        \* the state of numpy's global generator
    calls,      \* calls and caller writes so far
    op,         \* the last operation
    arg,        \* its arguments
    result,     \* NoErr, or the exception it raised
    ret,        \* the matrix it returned, and whose memory that matrix shares
    log,        \* the sampler calls and updates the last operation made
    Pat,        \* <<call, place in its log>> of the backward that wrote self.P
    bw,         \* the last backward call: its Y, its initial X, its Gibbs visits
    callerX,    \* the caller's matrix last passed to backward as X
    xShared,    \* self.X shares the memory of callerX
    batches     \* the column slices the last _ulogprob_hid processed

vars == <<self, rng, calls, op, arg, result, ret, log, Pat, bw, callerX,
          xShared, batches>>

MF == "MF"
GIBBS == "GIBBS"

\* What one handler threads through its statements: the fields, the
\* generator, the histories, and the exception raised so far.
Enter(callno) ==
    [self |-> self, rng |-> rng, log |-> <<>>, Pat |-> Pat, bw |-> bw,
     err |-> NoErr, xShared |-> xShared, call |-> callno]
Raise(st, e) == [st EXCEPT !.err = e]

---------------------------------------------------------------------------
\* forward

\* a mutant of CopyOf: the field's own matrix is handed out
SameObject(field, M) == [val |-> M, shares |-> field]

\* self.Y.copy(): a new matrix that shares memory with no field
CopyOf(field, M) == [val |-> M, shares |-> "none"]

forward(st, Xarg) ==
    LET s == st.self
        Xv == IF Xarg = None THEN s.X ELSE Xarg
    IN IF st.err # NoErr THEN st
       ELSE IF ~MatMulOk(Tr(s.W), Xv) THEN Raise(st, "ValueError")
       ELSE LET Q == Sigmoid(Add(MatMul(Tr(s.W), Xv), s.c))
                U == Rand(st.rng, Rows(Q), Cols(Q))
            IN [st EXCEPT !.self.Q = Q,
                          !.self.Y = Less(U.mat, Q),
                          !.rng = U.rng,
                          !.log = Append(@, [op |-> "forward", X |-> Xv])]

---------------------------------------------------------------------------
\* backward

\* the damped parallel mean field updates, k of them
RECURSIVE MeanField(_, _, _, _)
MeanField(L, dyn, P, k) ==
    IF Rows(P) = 0 \/ k = 0 THEN P
    ELSE MeanField(L, dyn,
                   Add(Times(damping, P),
                       Times(One - damping, Sigmoid(Add(dyn, MatMul(L, P))))),
                   k - 1)

backwardMF(st, Yv, dyn) ==
    LET s == st.self
        X0 == s.X
    IN IF ~MatMulOk(s.L, X0) THEN Raise(st, "ValueError")
       ELSE IF ~Compat(dyn, MatMul(s.L, X0)) THEN Raise(st, "ValueError")
       ELSE LET P0 == Sigmoid(Add(dyn, MatMul(s.L, X0)))
                P == MeanField(s.L, dyn, P0, num_lateral_updates)
                U == Rand(st.rng, Rows(P), Cols(P))
            IN [st EXCEPT !.self.P = P,
                          !.self.X = Less(U.mat, P),
                          !.xShared = FALSE,
                          !.rng = U.rng,
                          !.Pat = <<st.call, Len(st.log)>>]

\* a mutant of CurrentState: the state the call started from
StaleState(st) == st.bw.X0

\* the state of the other units that the conditional of unit i reads
CurrentState(st) == st.self.X

\* one unit of one sweep: P[i, :] = ..., then X[i, :] = ... in place
GibbsVisit(st, Yv, dyn, k, i) ==
    LET s == st.self
        Xc == CurrentState(st)
        Li == RowOf(s.L, i)
    IN IF st.err # NoErr THEN st
       ELSE IF i > Rows(dyn) THEN Raise(st, "IndexError")
       ELSE IF ~MatMulOk(Li, Xc) THEN Raise(st, "ValueError")
       ELSE IF ~Compat(RowOf(dyn, i), MatMul(Li, Xc)) THEN Raise(st, "ValueError")
       ELSE LET p == Sigmoid(Add(RowOf(dyn, i), MatMul(Li, Xc)))
            IN IF Cols(p) # Cols(s.P) /\ Cols(p) # 1 THEN Raise(st, "ValueError")
               ELSE LET Pi == [j \in 1..Cols(s.P) |-> At(p, 1, j)] \o <<>>
                        U == Rand(st.rng, 1, Cols(Yv))
                        x == Less(U.mat, <<Pi>>)
                        st1 == [st EXCEPT !.self.P[i] = Pi, !.rng = U.rng]
                    IN IF ~Compat(U.mat, <<Pi>>) THEN Raise(st1, "ValueError")
                       ELSE IF Cols(x) # Cols(s.X) /\ Cols(x) # 1
                            THEN Raise(st1, "ValueError")
                       ELSE LET Xi == [j \in 1..Cols(s.X) |-> At(x, 1, j)] \o <<>>
                            IN [st1 EXCEPT
                                  !.self.X[i] = Xi,
                                  !.bw.visits = Append(@,
                                      [sweep |-> k, unit |-> i, p |-> Pi, x |-> Xi])]

RECURSIVE GibbsUnits(_, _, _, _, _, _)
GibbsUnits(st, Yv, dyn, k, perm, n) ==
    IF n > Len(perm) \/ st.err # NoErr THEN st
    ELSE GibbsUnits(GibbsVisit(st, Yv, dyn, k, perm[n]), Yv, dyn, k, perm, n + 1)

\* for k in range(sweeps): for i in np.random.permutation(len(self.X))
RECURSIVE GibbsSweeps(_, _, _, _, _)
GibbsSweeps(st, Yv, dyn, k, sweeps) ==
    IF k > sweeps \/ st.err # NoErr THEN st
    ELSE LET pm == Permutation(st.rng, Len(st.self.X))
         IN GibbsSweeps(GibbsUnits([st EXCEPT !.rng = pm.rng], Yv, dyn, k, pm.perm, 1),
                        Yv, dyn, k + 1, sweeps)

backwardGibbs(st, Yv, dyn) ==
    GibbsSweeps([st EXCEPT !.self.P = Zeros(Rows(st.self.X), Cols(st.self.X)),
                           !.Pat = <<st.call, Len(st.log)>>],
                Yv, dyn, 1, num_lateral_updates + 1)

backward(st, Yarg, Xarg) ==
    LET s == st.self
        Yv == IF Yarg = None THEN s.Y ELSE Yarg
        X0 == IF Xarg = None THEN Zeros(Rows(s.X), Cols(Yv)) ELSE Xarg
        st1 == [st EXCEPT !.self.X = X0,
                          !.xShared = (Xarg # None),
                          !.bw = [Y |-> Yv, X0 |-> X0, visits |-> <<>>],
                          !.log = Append(@, [op |-> "backward", X0 |-> X0, Y |-> Yv])]
    IN IF st.err # NoErr THEN st
       ELSE IF ~MatMulOk(s.W, Yv) THEN Raise(st1, "ValueError")
       ELSE LET dyn == Add(MatMul(s.W, Yv), s.b)
            IN IF s.sampling_method = MF THEN backwardMF(st1, Yv, dyn)
               ELSE backwardGibbs(st1, Yv, dyn)

---------------------------------------------------------------------------
\* train

\* a mutant of LoadChains: the chains are reset when the row counts differ
LoadChainsByRows(st, Xb, Q) ==
    LET s == st.self
        reset == Rows(Xb) # Rows(s.pX)
        pX1 == IF reset THEN Zeros(Rows(Xb), Cols(Xb)) ELSE s.pX
        pY1 == IF reset THEN Zeros(Rows(Q), Cols(Q)) ELSE s.pY
    IN IF st.err # NoErr \/ ~s.persistent THEN st
       ELSE [st EXCEPT !.self.pX = pX1, !.self.pY = pY1,
                       !.self.X = pX1, !.self.Y = pY1,
                       !.xShared = FALSE,
                       !.log = (IF reset
                                THEN Append(@, [op |-> "reset", pX |-> pX1, pY |-> pY1])
                                ELSE @)
                               \o <<[op |-> "load", X |-> pX1, Y |-> pY1]>>]

\* lines 134-140: the persistent chains become the current state
LoadChains(st, Xb, Q) ==
    LET s == st.self
        reset == Cols(Xb) # Cols(s.pX)
        pX1 == IF reset THEN Zeros(Rows(Xb), Cols(Xb)) ELSE s.pX
        pY1 == IF reset THEN Zeros(Rows(Q), Cols(Q)) ELSE s.pY
    IN IF st.err # NoErr \/ ~s.persistent THEN st
       ELSE [st EXCEPT !.self.pX = pX1, !.self.pY = pY1,
                       !.self.X = pX1, !.self.Y = pY1,
                       !.xShared = FALSE,
                       !.log = (IF reset
                                THEN Append(@, [op |-> "reset", pX |-> pX1, pY |-> pY1])
                                ELSE @)
                               \o <<[op |-> "load", X |-> pX1, Y |-> pY1]>>]

\* lines 143-145
RECURSIVE NegativePhase(_, _)
NegativePhase(st, t) ==
    IF t = 0 \/ st.err # NoErr THEN st
    ELSE NegativePhase(forward(backward(st, None, None), None), t - 1)

\* lines 147-149
StoreChains(st) ==
    IF st.err # NoErr \/ ~st.self.persistent THEN st
    ELSE [st EXCEPT !.self.pX = st.self.X, !.self.pY = st.self.Y]

\* a mutant of ZeroDiagonal: the diagonal is kept
KeepDiagonal(M) == M

\* M -= np.diag(np.diag(M))
ZeroDiagonal(M) == Sub(M, DiagOf(M))

\* the second moment M * M.T of the model's visible state
Moment(M) == MatMul(M, Tr(M))

\* lines 157-160 and 171-174: the new dL, V the model's visible statistics
LateralGradient(s, Xb, V) ==
    ZeroDiagonal(
        Add(Sub(Over(Times(learning_rate_lateral, Sub(Moment(Xb), Moment(V))),
                     Cols(Xb)),
                Times(FMul(learning_rate_lateral, weight_decay_lateral), s.L)),
            Times(momentum_lateral, s.dL)))

\* lines 152-156 and 162-164
UpdateWbc(st, Xb, Q) ==
    LET s == st.self
    IN IF st.err # NoErr THEN st
       ELSE IF ~MatMulOk(s.P, Tr(s.Y)) THEN Raise(st, "ValueError")
       ELSE IF ~Compat(Xb, s.P) THEN Raise(st, "ValueError")
       ELSE LET dW == Add(Sub(Over(Times(learning_rate,
                                         Sub(MatMul(Xb, Tr(Q)), MatMul(s.P, Tr(s.Y)))),
                                   Cols(Xb)),
                              Times(FMul(learning_rate, weight_decay), s.W)),
                          Times(momentum, s.dW))
                db == Add(Times(learning_rate, Mean1(Sub(Xb, s.P))),
                          Times(momentum, s.db))
                dc == Add(Times(learning_rate, Mean1(Sub(Q, s.Y))),
                          Times(momentum, s.dc))
            IN [st EXCEPT !.self.dW = dW, !.self.db = db, !.self.dc = dc,
                          !.self.W = Add(s.W, dW),
                          !.self.b = Add(s.b, db),
                          !.self.c = Add(s.c, dc),
                          !.log = Append(@, [op |-> "update", Pat |-> st.Pat, P |-> s.P])]

\* lines 157-160, 165
UpdateL(st, Xb, V) ==
    LET dL == LateralGradient(st.self, Xb, V)
    IN IF st.err # NoErr THEN st
       ELSE [st EXCEPT !.self.dL = dL, !.self.L = Add(st.self.L, dL)]

\* a mutant of Steps: one pair short
StepsOneShort(s) == Max(0, s.cd_steps - 1)

\* the number of backward/forward pairs of one train call
Steps(s) == s.cd_steps

trainMF(st, Xb) ==
    LET st1 == forward(st, Xb)
        Q == st1.self.Q
        st2 == StoreChains(NegativePhase(LoadChains(st1, Xb, Q), Steps(st.self)))
    IN IF st1.err # NoErr THEN st1
       ELSE UpdateL(UpdateWbc(st2, Xb, Q), Xb, st2.self.P)

\* AbstractBM.train: the same cycle for W, b and c, with this class's
\* forward and backward
AbstractBMtrain(st, Xb) ==
    LET st1 == forward(st, Xb)
        Q == st1.self.Q
        st2 == StoreChains(NegativePhase(LoadChains(st1, Xb, Q), Steps(st.self)))
    IN IF st1.err # NoErr THEN st1 ELSE UpdateWbc(st2, Xb, Q)

trainGibbs(st, Xb) ==
    LET st1 == AbstractBMtrain(st, Xb)
    IN UpdateL(st1, Xb, st1.self.X)

train(st, Xb) ==
    IF st.self.sampling_method = MF THEN trainMF(st, Xb) ELSE trainGibbs(st, Xb)

---------------------------------------------------------------------------
\* _ulogprob_hid

\* no such attribute
NoAttr == 0

\* hasattr(self, '_ais_samples')
HasSamples(s) == s.ais_samples # NoAttr

\* max_samples = min(1E7 / num_ais_samples, Y.shape[1]) as the fraction
\* num/den; min returns its first argument on a tie
MaxSamples(a, N) ==
    IF Budget <= N * a THEN [num |-> Budget, den |-> a] ELSE [num |-> N, den |-> 1]

\* int(np.ceil(Y.shape[1] / max_samples))
NumBatches(a, N) ==
    LET m == MaxSamples(a, N)
    IN (N * m.den + m.num - 1) \div m.num

\* the columns s:s + n of batch k (k from 0): s = k * max_samples,
\* n = min(max_samples, Y.shape[1] - s), a float bound truncated.
\* lo is the first column (from 0) and hi the one after the last
Slice(a, N, k) ==
    LET m == MaxSamples(a, N)
    IN [lo |-> (k * m.num) \div m.den,
        hi |-> Min(((k + 1) * m.num) \div m.den, N)]

Slices(a, N) == [k \in 1..NumBatches(a, N) |-> Slice(a, N, k - 1)]

\* what the installed numpy does with a float slice bound: older releases
\* truncate it, newer ones raise
TRUNCATE == "truncate"
TYPEERROR == "TypeError"
FloatSlice == {TRUNCATE, TYPEERROR}
\* max_samples is a float when min returns its first argument
FloatBounds(a, N) == Budget <= N * a

\* a mutant of ulogprob_hid: no hasattr test, so that reading the missing
\* attribute raises
ulogprob_hid_unchecked(s, N, numpy) ==
    IF s.ais_samples = NoAttr
    THEN [err |-> "AttributeError", batches |-> <<>>, ret |-> None]
    ELSE IF FloatBounds(s.ais_samples, N) /\ numpy = TYPEERROR
    THEN [err |-> "TypeError", batches |-> <<>>, ret |-> None]
    ELSE [err |-> NoErr, batches |-> Slices(s.ais_samples, N), ret |-> Zeros(1, N)]

\* the outcome: the exception or NoErr, the slices processed, and the
\* returned row, of which only the shape is modelled
ulogprob_hid(s, N, numpy) ==
    IF ~HasSamples(s)
    THEN [err |-> "Exception", batches |-> <<>>, ret |-> None]
    ELSE IF FloatBounds(s.ais_samples, N) /\ numpy = TYPEERROR
    THEN [err |-> "TypeError", batches |-> <<>>, ret |-> None]
    ELSE [err |-> NoErr, batches |-> Slices(s.ais_samples, N), ret |-> Zeros(1, N)]

---------------------------------------------------------------------------
\* Construction.

\* the columns AbstractBM gives the cached states and the chains at first
InitCols == 1

\* AbstractBM.__init__: small random W, zero biases, momenta, caches, chains
AbstractBMinit(seed) ==
    LET r == Randn(seed, num_visibles, num_hiddens)
    IN [s |-> [W |-> Times(100, r.mat),
               b |-> Zeros(num_visibles, 1),
               c |-> Zeros(num_hiddens, 1),
               dW |-> Zeros(num_visibles, num_hiddens),
               db |-> Zeros(num_visibles, 1),
               dc |-> Zeros(num_hiddens, 1),
               X |-> Zeros(num_visibles, InitCols),
               Y |-> Zeros(num_hiddens, InitCols),
               P |-> Zeros(num_visibles, InitCols),
               Q |-> Zeros(num_hiddens, InitCols),
               pX |-> Zeros(num_visibles, InitCols),
               pY |-> Zeros(num_hiddens, InitCols)],
        rng |-> r.rng]

\* line 55: triu(L) + triu(L).T - 2 * diag(diag(L))
Symmetrize(M) == Sub(Add(Triu(M), Tr(Triu(M))), Times(2 * One, DiagOf(M)))

\* SemiRBM.__init__, and the hyperparameters the caller then sets
SemiRBMinit(seed, method, pers, cd) ==
    LET base == AbstractBMinit(seed)
        r == Randn(base.rng, num_visibles, num_visibles)
        L == Symmetrize(Over(Over(r.mat, num_visibles), 200))
    IN [s |-> [W |-> base.s.W, b |-> base.s.b, c |-> base.s.c,
               dW |-> base.s.dW, db |-> base.s.db, dc |-> base.s.dc,
               X |-> base.s.X, Y |-> base.s.Y, P |-> base.s.P, Q |-> base.s.Q,
               pX |-> base.s.pX, pY |-> base.s.pY,
               L |-> L,
               dL |-> Zeros(Rows(L), Cols(L)),
               sampling_method |-> method,
               persistent |-> pers,
               cd_steps |-> cd,
               ais_samples |-> NoAttr,
               ais_logweights |-> NoAttr],
        rng |-> r.rng]

NoRet == [val |-> None, shares |-> "none"]
NoArg == [X |-> None, Y |-> None]

\* the instance constructed, its hyperparameters set from the given sets
Constructed(methods, perss, cds) ==
    \E seed \in 0..(NumSeeds - 1), method \in methods, pers \in perss, cd \in cds :
        LET o == SemiRBMinit(seed, method, pers, cd)
        IN /\ self = o.s
           /\ rng = o.rng
           /\ calls = 0
           /\ op = "init"
           /\ arg = NoArg
           /\ result = NoErr
           /\ ret = NoRet
           /\ log = <<>>
           /\ Pat = <<0, 0>>
           /\ bw = [Y |-> None, X0 |-> None, visits |-> <<>>]
           /\ callerX = None
           /\ xShared = FALSE
           /\ batches = <<>>

\* training: every sampling method, persistent or not, every cd_steps
Init == Constructed({MF, GIBBS}, BOOLEAN, 0..MaxCdSteps)
\* the samplers and the estimator read neither persistent nor cd_steps
InitSampler == Constructed({MF, GIBBS}, {FALSE}, {1})

---------------------------------------------------------------------------
\* What callers pass.

VisMat(c) == Mat(num_visibles, c, LAMBDA i, j : IF (i + j) % 2 = 0 THEN One ELSE 0)
HidMat(c) == Mat(num_hiddens, c, LAMBDA i, j : IF (i + j) % 2 = 0 THEN One ELSE 0)
VisInputs == {VisMat(c) : c \in 1..MaxCols}
HidInputs == {HidMat(c) : c \in 1..MaxCols}
\* the numbers of AIS samples the AIS procedure attaches
AisCounts == {1, 4000000, 5000000}

---------------------------------------------------------------------------
\* The operations.

\* what every call leaves behind
Leave(st, o, a, r) ==
    /\ self' = st.self
    /\ rng' = st.rng
    /\ calls' = calls + 1
    /\ op' = o
    /\ arg' = a
    /\ result' = st.err
    /\ ret' = IF st.err = NoErr THEN r ELSE NoRet
    /\ log' = st.log
    /\ Pat' = st.Pat
    /\ bw' = st.bw
    /\ xShared' = st.xShared

Forward ==
    /\ calls < MaxCalls
    /\ \E Xarg \in {None} \cup VisInputs :
        LET st == forward(Enter(calls + 1), Xarg)
        IN /\ Leave(st, "forward", [X |-> Xarg, Y |-> None], CopyOf("Y", st.self.Y))
           /\ UNCHANGED <<callerX, batches>>

Backward ==
    /\ calls < MaxCalls
    /\ \E Yarg \in {None} \cup HidInputs, Xarg \in {None} \cup VisInputs :
        LET st == backward(Enter(calls + 1), Yarg, Xarg)
        IN /\ Leave(st, "backward", [X |-> Xarg, Y |-> Yarg], CopyOf("X", st.self.X))
           /\ callerX' = IF Xarg = None THEN callerX
                         ELSE IF st.xShared THEN st.self.X ELSE Xarg
           /\ UNCHANGED batches

Train ==
    /\ calls < MaxTrains
    /\ \E Xb \in VisInputs :
        LET st == train(Enter(calls + 1), Xb)
        IN /\ Leave(st, "train", [X |-> Xb, Y |-> None], NoRet)
           /\ UNCHANGED <<callerX, batches>>

\* the AIS procedure attaches its samples and their log-weights
AttachAIS ==
    /\ calls < MaxCalls
    /\ \E a \in AisCounts :
        /\ self' = [self EXCEPT !.ais_samples = a, !.ais_logweights = 1]
        /\ calls' = calls + 1
        /\ op' = "attach"
        /\ arg' = NoArg
        /\ result' = NoErr
        /\ ret' = NoRet
        /\ log' = <<>>
        /\ UNCHANGED <<rng, Pat, bw, callerX, xShared, batches>>

UlogprobHid ==
    /\ calls < MaxCalls
    /\ \E N \in 1..MaxHidCols, numpy \in FloatSlice :
        LET r == ulogprob_hid(self, N, numpy)
        IN /\ calls' = calls + 1
           /\ op' = "_ulogprob_hid"
           /\ arg' = [X |-> None, Y |-> HidMat(N)]
           /\ result' = r.err
           /\ ret' = [val |-> r.ret, shares |-> "none"]
           /\ batches' = r.batches
           /\ log' = <<>>
           /\ UNCHANGED <<self, rng, Pat, bw, callerX, xShared>>

\* the caller writes an entry of a matrix it holds: the one last returned
\* to it, or the one it last passed as X; the write reaches a field of the
\* instance that shares the matrix's memory
Flip(M) == [M EXCEPT ![1][1] = One - @]

CallerWrite ==
    /\ calls < MaxCalls
    /\ calls' = calls + 1
    /\ arg' = NoArg
    /\ result' = NoErr
    /\ log' = <<>>
    /\ \/ /\ ret.val # None
          /\ op' = "write_ret"
          /\ ret' = [ret EXCEPT !.val = Flip(@)]
          /\ self' = IF ret.shares = "Y" THEN [self EXCEPT !.Y = Flip(ret.val)]
                     ELSE IF ret.shares = "X" THEN [self EXCEPT !.X = Flip(ret.val)]
                     ELSE self
          /\ UNCHANGED callerX
       \/ /\ callerX # None
          /\ op' = "write_x"
          /\ callerX' = Flip(callerX)
          /\ self' = IF xShared THEN [self EXCEPT !.X = Flip(callerX)] ELSE self
          /\ UNCHANGED ret
    /\ UNCHANGED <<rng, Pat, bw, xShared, batches>>

\* training
Next == Train
Spec == Init /\ [][Next]_vars

\* the samplers and their caller
NextSampler == Forward \/ Backward \/ CallerWrite
SpecSampler == InitSampler /\ [][NextSampler]_vars

\* the estimator, the AIS procedure, and a forward that changes the caches
NextAIS == AttachAIS \/ UlogprobHid \/ Forward
SpecAIS == InitSampler /\ [][NextAIS]_vars

---------------------------------------------------------------------------
\* Properties.

IsSymmetric(M) ==
    /\ Rows(M) = Cols(M)
    /\ \A i, j \in 1..Rows(M) : M[i][j] = M[j][i]
ZeroDiag(M) == \A i \in 1..Rows(M) : M[i][i] = 0
IsZero(M) == \A i \in 1..Rows(M), j \in 1..Cols(M) : M[i][j] = 0
HasShape(M, r, c) == Rows(M) = r /\ Cols(M) = c

\* the entries of a log with the given op
Only(lg, ops) == SelectSeq(lg, LAMBDA e : e.op \in ops)
\* the places of a log with the given op
Places(lg, o) == {n \in 1..Len(lg) : lg[n].op = o}
Last(S) == CHOOSE n \in S : \A m \in S : m <= n
First(S) == CHOOSE n \in S : \A m \in S : n <= m

\* C1: after construction and after every train call, in either sampling
\* method and with or without persistent chains, L and dL are symmetric
\* with a zero diagonal.
C1_LateralSymmetric ==
    /\ IsSymmetric(self.L) /\ ZeroDiag(self.L)
    /\ IsSymmetric(self.dL) /\ ZeroDiag(self.dL)
    /\ Rows(self.L) = num_visibles /\ Rows(self.dL) = num_visibles

\* a second Gibbs train call with persistent chains has moved L and dL
C1_Witness ==
    /\ op = "train" /\ result = NoErr /\ calls >= 2
    /\ self.sampling_method = GIBBS /\ self.persistent
    /\ self.L[1][2] # 0 /\ self.dL[1][2] # 0 /\ self.L[1][2] # self.dL[1][2]

\* C2: a persistent mean-field train call on a batch with the cached
\* chain's column count starts its negative phase from the stored chain:
\* its first backward conditions on pY and relaxes from pX.
C2_ChainReused ==
    (/\ op = "train" /\ result = NoErr
     /\ self.sampling_method = MF /\ self.persistent /\ self.cd_steps >= 1
     /\ Places(log, "reset") = {})
    => LET first == log[First(Places(log, "backward"))]
           load == log[First(Places(log, "load"))]
       IN first.Y = load.Y /\ first.X0 = load.X

\* C3: a persistent mean-field train call on a batch whose column count
\* differs from that of the cached pX replaces pX and pY by zero matrices
\* of the batch's shape before any backward runs, and leaves pX and pY with
\* the batch's column count.
C3_ChainReset ==
    [][(/\ op' = "train"
        /\ self.sampling_method = MF /\ self.persistent
        /\ Cols(arg'.X) # Cols(self.pX))
       => /\ Places(log', "reset") # {}
          /\ LET n == First(Places(log', "reset"))
             IN /\ IsZero(log'[n].pX) /\ IsZero(log'[n].pY)
                /\ HasShape(log'[n].pX, Rows(arg'.X), Cols(arg'.X))
                /\ HasShape(log'[n].pY, num_hiddens, Cols(arg'.X))
                /\ \A m \in Places(log', "backward") : n < m
                /\ log'[n + 1] = [op |-> "load", X |-> log'[n].pX, Y |-> log'[n].pY]
          /\ Cols(self'.pX) = Cols(arg'.X)
          /\ Cols(self'.pY) = Cols(arg'.X)]_vars

\* a later train call that changed the batch's column count
C3_Witness ==
    /\ op = "train" /\ result = NoErr /\ calls >= 2
    /\ self.sampling_method = MF /\ self.persistent /\ self.cd_steps >= 1
    /\ Places(log, "reset") # {}
    /\ Cols(self.pX) = Cols(arg.X) /\ Cols(arg.X) > 1
    /\ ~IsZero(self.pX)

\* the state of the visible units before visit n of the last backward
RECURSIVE StateBefore(_)
StateBefore(n) ==
    IF n = 1 THEN bw.X0
    ELSE [StateBefore(n - 1) EXCEPT ![bw.visits[n - 1].unit] = bw.visits[n - 1].x]
\* the conditional of visit n given that state
Conditional(n) ==
    LET i == bw.visits[n].unit
        dyn == Add(MatMul(self.W, bw.Y), self.b)
        p == Sigmoid(Add(RowOf(dyn, i), MatMul(RowOf(self.L, i), StateBefore(n))))
    IN [j \in 1..Cols(bw.X0) |-> At(p, 1, j)]
\* the units of sweep k in the order visited
SweepOrder(k) ==
    [n \in 1..num_visibles |-> bw.visits[(k - 1) * num_visibles + n].unit]

\* C4: a Gibbs backward call makes num_lateral_updates + 1 sweeps, each
\* visiting every visible unit once, and the probability of a visited unit
\* is computed from the values the other units have at that moment.
C4_GibbsSweeps ==
    (op = "backward" /\ self.sampling_method = GIBBS /\ result = NoErr)
    => /\ Len(bw.visits) = (num_lateral_updates + 1) * num_visibles
       /\ \A k \in 1..(num_lateral_updates + 1) :
            /\ \A n \in 1..num_visibles :
                 bw.visits[(k - 1) * num_visibles + n].sweep = k
            /\ {SweepOrder(k)[n] : n \in 1..num_visibles} = 1..num_visibles
       /\ \A n \in 1..Len(bw.visits) : bw.visits[n].p = Conditional(n)
       /\ self.X = StateBefore(Len(bw.visits) + 1)

\* two sweeps of one call in different orders, a unit whose value changed
C4_Witness ==
    /\ op = "backward" /\ self.sampling_method = GIBBS /\ result = NoErr
    /\ arg.X # None
    /\ \E k \in 2..(num_lateral_updates + 1) : SweepOrder(k) # SweepOrder(1)
    /\ \E n \in 1..Len(bw.visits) :
         bw.visits[n].x # StateBefore(n)[bw.visits[n].unit]

\* C5: _ulogprob_hid on an instance without the AIS state raises the
\* explicit exception, returns nothing and changes no field.
C5_NeedsAIS ==
    [][(/\ op' = "_ulogprob_hid"
        /\ self.ais_samples = NoAttr /\ self.ais_logweights = NoAttr)
       => /\ result' = "Exception"
          /\ ret'.val = None
          /\ batches' = <<>>
          /\ self' = self]_vars

\* the call failed on an instance whose caches a forward had filled
C5_Witness ==
    /\ op = "_ulogprob_hid" /\ result = "Exception" /\ calls >= 2
    /\ self.ais_samples = NoAttr
    /\ Cols(self.Y) > 1

\* C6: the slices of _ulogprob_hid cover every column of Y exactly once
\* and each holds at most Budget / num_ais_samples columns.
C6_BatchesInBudget ==
    (op = "_ulogprob_hid" /\ result = NoErr)
    => /\ \A col \in 0..(Cols(arg.Y) - 1) :
            Cardinality({k \in 1..Len(batches) :
                           batches[k].lo <= col /\ col < batches[k].hi}) = 1
       /\ \A k \in 1..Len(batches) :
            (batches[k].hi - batches[k].lo) * self.ais_samples <= Budget

\* C7: backward with an X whose column count differs from that of the Y
\* it conditions on raises an error and returns nothing.
C7_ColumnMismatchFails ==
    (op = "backward" /\ arg.X # None /\ Cols(arg.X) # Cols(bw.Y))
    => result # NoErr /\ ret.val = None

\* C8: forward changes no field but Q and Y and returns a copy of Y: a
\* write to the returned matrix leaves the cached Y as it was.
C8_ForwardFrame ==
    [][/\ op' = "forward"
          => /\ self' = [self EXCEPT !.Q = self'.Q, !.Y = self'.Y]
             /\ result' = NoErr => ret'.val = self'.Y
       /\ (op = "forward" /\ op' = "write_ret")
          => /\ self'.Y = self.Y
             /\ ret'.val # self'.Y]_vars

\* the caller changed the matrix forward(X) returned; the cached Y differs
C8_Witness ==
    /\ op = "write_ret" /\ Rows(ret.val) = num_hiddens
    /\ ret.val = Flip(self.Y)
    /\ Cols(self.Y) > 1

\* the calls of a mean-field train: forward, Steps pairs, update
RECURSIVE Pairs(_)
Pairs(n) == IF n = 0 THEN <<>> ELSE <<"backward", "forward">> \o Pairs(n - 1)
TrainOrder(lg, n) ==
    LET made == Only(lg, {"forward", "backward", "update"})
    IN [k \in 1..Len(made) |-> made[k].op] = <<"forward">> \o Pairs(n) \o <<"update">>

\* what C9 says of a mean-field train call with cd_steps = n
TrainCycle(n) ==
    /\ result' = NoErr
    /\ TrainOrder(log', n)
    /\ log'[1].X = arg'.X
    /\ self'.W = Add(self.W, self'.dW)
    /\ self'.b = Add(self.b, self'.db)
    /\ self'.c = Add(self.c, self'.dc)
    /\ self'.L = Add(self.L, self'.dL)
    /\ Places(log', "backward") # {}
    /\ LET u == log'[Len(log')]
       IN /\ u.Pat = <<calls', Last(Places(log', "backward"))>>
          /\ u.P = self'.P

C10_CallerXKept ==
    (op = "backward" /\ arg.X # None) => callerX = arg.X

=============================================================================
